---------------------------- MODULE Spec2Model ----------------------------
(***************************************************************************)
(* Pod lifecycle reconciliation of the virtual-kubelet server              *)
(* (src/vkubelet/pod.go): createPod, deletePod, updatePodStatus and the    *)
(* sweep updatePodStatuses, together with the provider, the orchestrator   *)
(* record (k8sClient) and the resource manager they talk to.               *)
(*                                                                         *)
(* A Go pointer is modelled as a set with at most one element: {} is nil.  *)
(* An error value is a string; "nil" is the nil error.                     *)
(* The clock counts half minutes, so time.Minute is 2.                     *)
(***************************************************************************)
EXTENDS Integers, Sequences, FiniteSets, TLC

VARIABLES
    pods,       \* the *corev1.Pod objects: name -> pod object
    tracked,    \* resourceManager: names of the pods GetPods() returns
    k8s,        \* orchestrator records: name -> status last written
    provider,   \* names of the pods the provider currently tracks
    clock,      \* time.Now(), in half minutes
    sweeping,   \* an updatePodStatuses call is inside its loop
    sweepPods,  \* the part of its snapshot the loop has not reached yet
    ctxDone,    \* ctx.Done() has fired
    panicked,   \* the process died of a runtime panic
    last,       \* the call that just returned: its answers and what it did
    prev,       \* per pod: the GetPodStatus answer of its latest
                \* updatePodStatus call and when, while nothing else has
                \* touched the pod or the provider's view of it since
    steps       \* the calls made so far, counted where runs are bounded

vars == <<pods, tracked, k8s, provider, clock, sweeping, sweepPods, ctxDone,
          panicked, last, prev, steps>>

---------------------------------------------------------------------------
(* Bounds and constants *)

MaxClock == 3

MaxSteps == 4

Minute == 2

ExitCodeNotFound == 0 - 137

PodNames == {"nginx-0", "nginx-1"}

Containers(p) == IF p = "nginx-0" THEN <<"bar", "baz">> ELSE <<"bar">>

RestartPolicies == {"Always", "OnFailure", "Never"}

podStatusReasonProviderFailed == "ProviderFailed"

PodPending == "Pending"
PodRunning == "Running"
PodSucceeded == "Succeeded"
PodFailed == "Failed"

Nil == {}

Deref(ptr) == CHOOSE x \in ptr : TRUE

IsNotFound(err) == err = "NotFound"

Put(f, k, v) == [x \in (DOMAIN f) \cup {k} |-> IF x = k THEN v ELSE f[x]]

\* A delete that takes every record with it, not only the one of k.
DropEvery(f, k) == [x \in (DOMAIN f) \ ((DOMAIN f) \cup {k}) |-> f[x]]

Drop(f, k) == [x \in (DOMAIN f) \ {k} |-> f[x]]

---------------------------------------------------------------------------
(* Pod objects and statuses *)

EmptyStatus == [phase |-> PodPending, reason |-> "", message |-> "",
                containerStatuses |-> <<>>]

NewPod(policy, now) ==
    [status |-> EmptyStatus, creationTimestamp |-> now,
     resourceVersion |-> "1", restartPolicy |-> policy]

WaitingState == [waiting |-> TRUE, running |-> Nil, terminated |-> Nil]

RunningState(i) ==
    [waiting |-> FALSE, running |-> {[startedAt |-> i]}, terminated |-> Nil]

ExitedState(i, code) ==
    [waiting |-> FALSE, running |-> Nil,
     terminated |-> {[exitCode |-> code, reason |-> "Completed",
                      message |-> "", finishedAt |-> i, startedAt |-> i,
                      containerID |-> "" ]}]

ContainerStatus(p, i, state) ==
    [name |-> Containers(p)[i], containerID |-> Containers(p)[i],
     state |-> state]

\* The statuses a provider reports for a pod it tracks.
LiveStatuses(p) ==
    LET n == Len(Containers(p)) IN
    { [phase |-> PodPending, reason |-> "", message |-> "",
       containerStatuses |-> [i \in 1..n |-> ContainerStatus(p, i, WaitingState)]],
      [phase |-> PodRunning, reason |-> "", message |-> "",
       containerStatuses |-> [i \in 1..n |-> ContainerStatus(p, i, RunningState(i))]],
      [phase |-> PodRunning, reason |-> "", message |-> "",
       containerStatuses |->
           [i \in 1..n |-> ContainerStatus(p, i,
                IF i < n THEN RunningState(i) ELSE ExitedState(i, 1))]],
      [phase |-> PodSucceeded, reason |-> "", message |-> "",
       containerStatuses |->
           [i \in 1..n |-> ContainerStatus(p, i, ExitedState(i, 0))]] }

---------------------------------------------------------------------------
(* The collaborators: provider, orchestrator record *)

\* Provider.DeletePod: NotFound when the pod is already absent.
DeletePodAnswers(p) ==
    IF p \in provider THEN {"nil", "Internal"} ELSE {"NotFound", "Internal"}

\* Provider.GetPodStatus: (status, err); a nil status and a nil error when
\* the pod is unknown to the provider.
GetPodStatusAnswers(p) ==
    IF p \in provider
    THEN {[status |-> {s}, err |-> "nil"] : s \in LiveStatuses(p)}
         \cup {[status |-> Nil, err |-> "Internal"]}
    ELSE {[status |-> Nil, err |-> "nil"], [status |-> Nil, err |-> "Internal"]}

\* Pods(ns).Delete(name, opts) on the orchestrator record.
K8sDeleteAnswers(p) ==
    IF p \in DOMAIN k8s THEN {"nil", "Internal"} ELSE {"NotFound"}

\* Pods(ns).UpdateStatus(pod) on the orchestrator record.
UpdateStatusAnswers(p) ==
    IF p \in DOMAIN k8s THEN {"nil", "Conflict"} ELSE {"NotFound"}

NoCall ==
    [op |-> "none", pod |-> "", ret |-> "nil", provErr |-> "nil",
     provStatus |-> Nil, k8sErr |-> "nil", getStatusCalls |-> 0,
     statusWrites |-> 0, deletes |-> 0, grace |-> Nil, path |-> "",
     again |-> FALSE]

---------------------------------------------------------------------------
(* The stats summary of the provider, and the end-to-end test's checks *)

NodeName == "vkubelet-node"

PodRef(p) == [namespace |-> "default", name |-> p, uid |-> p]

\* A PodStats that reports the first declared container only.
PodStatsOfFirstContainer(p) ==
    [podRef |-> PodRef(p),
     containers |-> [i \in 1..1 |-> [name |-> Containers(p)[i]]]]

\* The PodStats of a pod the provider tracks: one entry per container.
PodStats(p) ==
    [podRef |-> PodRef(p),
     containers |-> [i \in 1..Len(Containers(p)) |-> [name |-> Containers(p)[i]]]]

RECURSIVE PodStatsList(_)
PodStatsList(S) ==
    IF S = {} THEN <<>>
    ELSE LET p == CHOOSE x \in S : TRUE
         IN <<PodStats(p)>> \o PodStatsList(S \ {p})

\* Provider.GetStatsSummary: the node and one PodStats per tracked pod.
GetStatsSummary ==
    [node |-> [nodeName |-> NodeName], pods |-> PodStatsList(provider)]

\* The checks TestGetStatsSummary makes on a summary, for the pod p it
\* created with two containers. The last one compares the pod counts again,
\* not currentContainerStatsCount with desiredContainerStatsCount.
TestGetStatsSummaryChecks(stats, p) ==
    LET desiredPodStatsCount == 1
        currentPodStatsCount == Len(stats.pods)
    IN /\ stats.node.nodeName = NodeName
       /\ ~(currentPodStatsCount # desiredPodStatsCount)
       /\ stats.pods[1].podRef = PodRef(p)
       /\ ~(currentPodStatsCount # desiredPodStatsCount)

---------------------------------------------------------------------------
(* deletePod *)

\* deletePod with the first test negated: it returns on an error that is
\* not NotFound, and lets a NotFound through to the test that skips the
\* orchestrator Delete.
deletePodResultReturnsOtherErrors(delErr, err) ==
    IF delErr # "nil" /\ ~IsNotFound(delErr)
    THEN [ret |-> delErr, deletes |-> 0, grace |-> Nil]
    ELSE IF ~IsNotFound(delErr)
         THEN IF err # "nil" /\ IsNotFound(err)
              THEN [ret |-> "nil", deletes |-> 1, grace |-> {0}]
              ELSE [ret |-> "nil", deletes |-> 1, grace |-> {0}]
         ELSE [ret |-> "nil", deletes |-> 0, grace |-> Nil]

\* What deletePod does, given the provider's answer delErr and the answer
\* err the orchestrator would give to a Delete: the value returned and
\* whether the Delete was issued.
deletePodResult(delErr, err) ==
    IF delErr # "nil" /\ IsNotFound(delErr)
    THEN [ret |-> delErr, deletes |-> 0, grace |-> Nil]
    ELSE IF ~IsNotFound(delErr)
         THEN IF err # "nil" /\ IsNotFound(err)
              THEN IF IsNotFound(err)
                   THEN [ret |-> "nil", deletes |-> 1, grace |-> {0}]
                   ELSE [ret |-> "Failed to delete kubernetes pod",
                         deletes |-> 1, grace |-> {0}]
              ELSE [ret |-> "nil", deletes |-> 1, grace |-> {0}]
         ELSE [ret |-> "nil", deletes |-> 0, grace |-> Nil]

deletePod(p) ==
    /\ ~panicked
    /\ p \in DOMAIN pods
    /\ \E delErr \in DeletePodAnswers(p), err \in K8sDeleteAnswers(p) :
         LET r == deletePodResult(delErr, err) IN
         /\ provider' = IF delErr = "nil" THEN provider \ {p} ELSE provider
         /\ k8s' = IF r.deletes = 1 /\ err = "nil" THEN Drop(k8s, p) ELSE k8s
         /\ last' = [NoCall EXCEPT !.op = "deletePod", !.pod = p,
                        !.ret = r.ret, !.provErr = delErr,
                        !.k8sErr = IF r.deletes = 1 THEN err ELSE "nil",
                        !.deletes = r.deletes, !.grace = r.grace]
         /\ prev' = IF delErr = "nil" THEN [prev EXCEPT ![p] = Nil] ELSE prev
    /\ UNCHANGED <<pods, tracked, clock, sweeping, sweepPods, ctxDone, panicked>>

---------------------------------------------------------------------------
(* createPod *)

\* populateEnvironmentVariables(pod)
PopulateEnvAnswers == {"nil", "EnvError"}

\* Provider.CreatePod
CreatePodAnswers == {"nil", "Internal"}

\* createPod that marks the pod Failed whatever its restart policy.
createPodResultFailsEveryPolicy(pod, envErr, origErr) ==
    IF envErr # "nil"
    THEN [pod |-> pod, ret |-> envErr, statusWrites |-> 0, called |-> FALSE]
    ELSE IF origErr # "nil"
         THEN [pod |-> [pod EXCEPT !.resourceVersion = "",
                                   !.status.phase = PodFailed,
                                   !.status.reason = podStatusReasonProviderFailed,
                                   !.status.message = origErr],
               ret |-> origErr, statusWrites |-> 1, called |-> TRUE]
         ELSE [pod |-> pod, ret |-> "nil", statusWrites |-> 0, called |-> TRUE]

\* createPod that returns nil once it has recorded the provider's failure.
createPodResultSwallowsError(pod, envErr, origErr) ==
    IF envErr # "nil"
    THEN [pod |-> pod, ret |-> envErr, statusWrites |-> 0, called |-> FALSE]
    ELSE IF origErr # "nil"
         THEN LET podPhase == IF pod.restartPolicy = "Never"
                              THEN PodFailed ELSE PodPending
              IN [pod |-> [pod EXCEPT !.resourceVersion = "",
                                      !.status.phase = podPhase,
                                      !.status.reason = podStatusReasonProviderFailed,
                                      !.status.message = origErr],
                  ret |-> "nil", statusWrites |-> 1, called |-> TRUE]
         ELSE [pod |-> pod, ret |-> "nil", statusWrites |-> 0, called |-> TRUE]

\* What createPod does to the pod, given the answers of
\* populateEnvironmentVariables and Provider.CreatePod.
createPodResult(pod, envErr, origErr) ==
    IF envErr # "nil"
    THEN [pod |-> pod, ret |-> envErr, statusWrites |-> 0, called |-> FALSE]
    ELSE IF origErr # "nil"
         THEN LET podPhase == IF pod.restartPolicy = "Never"
                              THEN PodFailed ELSE PodPending
              IN [pod |-> [pod EXCEPT !.resourceVersion = "",
                                      !.status.phase = podPhase,
                                      !.status.reason = podStatusReasonProviderFailed,
                                      !.status.message = origErr],
                  ret |-> origErr, statusWrites |-> 1, called |-> TRUE]
         ELSE [pod |-> pod, ret |-> "nil", statusWrites |-> 0, called |-> TRUE]

createPod(p) ==
    /\ ~panicked
    /\ p \in tracked
    /\ p \in DOMAIN k8s
    /\ \E envErr \in PopulateEnvAnswers, origErr \in CreatePodAnswers,
          werr \in UpdateStatusAnswers(p) :
         LET r == createPodResult(pods[p], envErr, origErr) IN
         /\ pods' = [pods EXCEPT ![p] = r.pod]
         /\ provider' = IF r.called /\ origErr = "nil"
                        THEN provider \cup {p} ELSE provider
         /\ k8s' = IF r.statusWrites = 1 /\ werr = "nil"
                   THEN Put(k8s, p, r.pod.status) ELSE k8s
         /\ last' = [NoCall EXCEPT !.op = "createPod", !.pod = p,
                        !.ret = r.ret,
                        !.provErr = IF r.called THEN origErr ELSE "nil",
                        !.k8sErr = IF r.statusWrites = 1 THEN werr ELSE "nil",
                        !.statusWrites = r.statusWrites]
         /\ prev' = IF r.called THEN [prev EXCEPT ![p] = Nil] ELSE prev
    /\ UNCHANGED <<tracked, clock, sweeping, sweepPods, ctxDone, panicked>>

---------------------------------------------------------------------------
(* updatePodStatus *)

\* The loop over pod.Status.ContainerStatuses on the not-found path, from
\* index i on. Reading c.State.Running.StartedAt through a nil Running is a
\* nil pointer dereference: the loop stops there with a panic.
RECURSIVE forceTerminated(_, _, _)
forceTerminated(cs, i, now) ==
    IF i > Len(cs)
    THEN [containerStatuses |-> cs, panic |-> FALSE]
    ELSE LET c == cs[i] IN
         IF c.state.running = Nil
         THEN [containerStatuses |-> cs, panic |-> TRUE]
         ELSE forceTerminated(
                [cs EXCEPT
                   ![i].state.terminated =
                       {[exitCode |-> ExitCodeNotFound,
                         reason |-> "NotFound",
                         message |-> "Container was not found and was likely deleted",
                         finishedAt |-> now,
                         startedAt |-> Deref(c.state.running).startedAt,
                         containerID |-> c.containerID]},
                   ![i].state.running = Nil],
                i + 1, now)

\* The grace test against the zero time in place of time.Now(): never over.
GraceOverAtZeroTime(pod, now) == pod.creationTimestamp + Minute < 0

\* The grace test with !After in place of Before: over at one minute sharp.
GraceOverAtOneMinute(pod, now) == pod.creationTimestamp + Minute <= now

\* pod.ObjectMeta.CreationTimestamp.Add(time.Minute).Before(time.Now())
GraceOver(pod, now) == pod.creationTimestamp + Minute < now

\* The short circuit without the test of the provider-failure sentinel.
TerminalByPhaseOnly(status) ==
    \/ status.phase = PodSucceeded
    \/ status.phase = PodFailed

\* The short circuit at the head of updatePodStatus.
Terminal(status) ==
    \/ status.phase = PodSucceeded
    \/ status.phase = PodFailed
    \/ status.reason = podStatusReasonProviderFailed

\* The not-found branch without the test of the Running phase: only the
\* pod's age decides.
notFoundStatusByAgeOnly(pod, now) ==
    IF GraceOver(pod, now)
    THEN LET f == forceTerminated(pod.status.containerStatuses, 1, now) IN
         [pod |-> [pod EXCEPT
                     !.status.phase = PodFailed,
                     !.status.reason = "NotFound",
                     !.status.message =
                        "The pod status was not found and may have been deleted from the provider",
                     !.status.containerStatuses = f.containerStatuses],
          panic |-> f.panic, path |-> "notfound"]
    ELSE [pod |-> pod, panic |-> FALSE, path |-> "grace"]

\* The branch taken when GetPodStatus returned no status and no error.
notFoundStatus(pod, now) ==
    IF pod.status.phase = PodRunning \/ GraceOver(pod, now)
    THEN LET f == forceTerminated(pod.status.containerStatuses, 1, now) IN
         [pod |-> [pod EXCEPT
                     !.status.phase = PodFailed,
                     !.status.reason = "NotFound",
                     !.status.message =
                        "The pod status was not found and may have been deleted from the provider",
                     !.status.containerStatuses = f.containerStatuses],
          panic |-> f.panic, path |-> "notfound"]
    ELSE [pod |-> pod, panic |-> FALSE, path |-> "grace"]

\* updatePodStatus that takes only the phase of a live status and keeps the
\* rest of the pod's previous status.
updatePodStatusResultTakesPhaseOnly(pod, ans, werr, now) ==
    IF Terminal(pod.status)
    THEN [pod |-> pod, ret |-> "nil", panic |-> FALSE,
          getStatusCalls |-> 0, statusWrites |-> 0, path |-> "terminal"]
    ELSE IF ans.err # "nil"
    THEN [pod |-> pod, ret |-> "error retreiving pod status", panic |-> FALSE,
          getStatusCalls |-> 1, statusWrites |-> 0, path |-> "error"]
    ELSE LET m == IF ans.status # Nil
                  THEN [pod |-> [pod EXCEPT !.status.phase =
                                               Deref(ans.status).phase],
                        panic |-> FALSE, path |-> "live"]
                  ELSE notFoundStatus(pod, now)
         IN IF m.panic
            THEN [pod |-> m.pod, ret |-> "panic", panic |-> TRUE,
                  getStatusCalls |-> 1, statusWrites |-> 0, path |-> m.path]
            ELSE [pod |-> m.pod,
                  ret |-> IF werr # "nil"
                          THEN "error while updating pod status in kubernetes"
                          ELSE "nil",
                  panic |-> FALSE, getStatusCalls |-> 1, statusWrites |-> 1,
                  path |-> m.path]

\* updatePodStatus that only logs an error of GetPodStatus and goes on to
\* write the pod's status.
updatePodStatusResultIgnoresGetError(pod, ans, werr, now) ==
    IF Terminal(pod.status)
    THEN [pod |-> pod, ret |-> "nil", panic |-> FALSE,
          getStatusCalls |-> 0, statusWrites |-> 0, path |-> "terminal"]
    ELSE IF ans.err # "nil"
    THEN [pod |-> pod,
          ret |-> IF werr # "nil"
                  THEN "error while updating pod status in kubernetes"
                  ELSE "nil",
          panic |-> FALSE, getStatusCalls |-> 1, statusWrites |-> 1,
          path |-> "error"]
    ELSE LET m == IF ans.status # Nil
                  THEN [pod |-> [pod EXCEPT !.status = Deref(ans.status)],
                        panic |-> FALSE, path |-> "live"]
                  ELSE notFoundStatus(pod, now)
         IN IF m.panic
            THEN [pod |-> m.pod, ret |-> "panic", panic |-> TRUE,
                  getStatusCalls |-> 1, statusWrites |-> 0, path |-> m.path]
            ELSE [pod |-> m.pod,
                  ret |-> IF werr # "nil"
                          THEN "error while updating pod status in kubernetes"
                          ELSE "nil",
                  panic |-> FALSE, getStatusCalls |-> 1, statusWrites |-> 1,
                  path |-> m.path]

\* updatePodStatus that skips the UpdateStatus write when the status did not
\* change.
updatePodStatusResultWritesChangesOnly(pod, ans, werr, now) ==
    IF Terminal(pod.status)
    THEN [pod |-> pod, ret |-> "nil", panic |-> FALSE,
          getStatusCalls |-> 0, statusWrites |-> 0, path |-> "terminal"]
    ELSE IF ans.err # "nil"
    THEN [pod |-> pod, ret |-> "error retreiving pod status", panic |-> FALSE,
          getStatusCalls |-> 1, statusWrites |-> 0, path |-> "error"]
    ELSE LET m == IF ans.status # Nil
                  THEN [pod |-> [pod EXCEPT !.status = Deref(ans.status)],
                        panic |-> FALSE, path |-> "live"]
                  ELSE notFoundStatus(pod, now)
             w == IF m.pod = pod THEN 0 ELSE 1
         IN IF m.panic
            THEN [pod |-> m.pod, ret |-> "panic", panic |-> TRUE,
                  getStatusCalls |-> 1, statusWrites |-> 0, path |-> m.path]
            ELSE [pod |-> m.pod,
                  ret |-> IF w = 1 /\ werr # "nil"
                          THEN "error while updating pod status in kubernetes"
                          ELSE "nil",
                  panic |-> FALSE, getStatusCalls |-> 1, statusWrites |-> w,
                  path |-> m.path]

\* What updatePodStatus does to the pod, given the provider's answer
\* (status, err) and the answer werr the orchestrator gives to UpdateStatus.
updatePodStatusResult(pod, ans, werr, now) ==
    IF Terminal(pod.status)
    THEN [pod |-> pod, ret |-> "nil", panic |-> FALSE,
          getStatusCalls |-> 0, statusWrites |-> 0, path |-> "terminal"]
    ELSE IF ans.err # "nil"
    THEN [pod |-> pod, ret |-> "error retreiving pod status", panic |-> FALSE,
          getStatusCalls |-> 1, statusWrites |-> 0, path |-> "error"]
    ELSE LET m == IF ans.status # Nil
                  THEN [pod |-> [pod EXCEPT !.status = Deref(ans.status)],
                        panic |-> FALSE, path |-> "live"]
                  ELSE notFoundStatus(pod, now)
         IN IF m.panic
            THEN [pod |-> m.pod, ret |-> "panic", panic |-> TRUE,
                  getStatusCalls |-> 1, statusWrites |-> 0, path |-> m.path]
            ELSE [pod |-> m.pod,
                  ret |-> IF werr # "nil"
                          THEN "error while updating pod status in kubernetes"
                          ELSE "nil",
                  panic |-> FALSE, getStatusCalls |-> 1, statusWrites |-> 1,
                  path |-> m.path]

\* One call updatePodStatus(ctx, pod), as the sweep makes it.
updatePodStatus(p) ==
    \E ans \in GetPodStatusAnswers(p), werr \in UpdateStatusAnswers(p) :
      LET r == updatePodStatusResult(pods[p], ans, werr, clock) IN
      /\ pods' = [pods EXCEPT ![p] = r.pod]
      /\ k8s' = IF r.statusWrites = 1 /\ werr = "nil"
                THEN Put(k8s, p, r.pod.status) ELSE k8s
      /\ panicked' = r.panic
      /\ last' = [NoCall EXCEPT !.op = "updatePodStatus", !.pod = p,
                     !.ret = r.ret,
                     !.provErr = IF r.getStatusCalls = 1 THEN ans.err ELSE "nil",
                     !.provStatus = IF r.getStatusCalls = 1 THEN ans.status ELSE Nil,
                     !.k8sErr = IF r.statusWrites = 1 THEN werr ELSE "nil",
                     !.getStatusCalls = r.getStatusCalls,
                     !.statusWrites = r.statusWrites,
                     !.path = r.path,
                     !.again = /\ r.getStatusCalls = 1
                               /\ prev[p] # Nil
                               /\ Deref(prev[p]).status = ans.status
                               /\ Deref(prev[p]).err = ans.err]
      /\ prev' = [prev EXCEPT ![p] =
                     IF r.getStatusCalls = 1
                     THEN {[status |-> ans.status, err |-> ans.err, at |-> clock]}
                     ELSE Nil]

---------------------------------------------------------------------------
(* updatePodStatuses: the sweep *)

\* The orders in which GetPods() may list the pods of a set.
Orders(S) ==
    {q \in [1..Cardinality(S) -> S] : \A i, j \in 1..Cardinality(S) :
                                         i # j => q[i] # q[j]}

\* pods := s.resourceManager.GetPods(), up to the loop.
updatePodStatusesStart ==
    /\ ~panicked
    /\ ~sweeping
    /\ \E q \in Orders(tracked) :
         /\ sweepPods' = q
         /\ sweeping' = (q # <<>>)
    /\ last' = NoCall
    /\ UNCHANGED <<pods, tracked, k8s, provider, clock, ctxDone, panicked,
                   prev>>

\* case <-ctx.Done(): return
updatePodStatusesCancelled ==
    /\ ~panicked
    /\ sweeping
    /\ ctxDone
    /\ sweeping' = FALSE
    /\ sweepPods' = <<>>
    /\ last' = NoCall
    /\ UNCHANGED <<pods, tracked, k8s, provider, clock, ctxDone, panicked,
                   prev>>

\* The loop body without the select on ctx.Done() in front of it.
updatePodStatusesNextUnchecked ==
    /\ ~panicked
    /\ sweeping
    /\ updatePodStatus(Head(sweepPods))
    /\ sweepPods' = Tail(sweepPods)
    /\ sweeping' = (Tail(sweepPods) # <<>>)
    /\ UNCHANGED <<tracked, provider, clock, ctxDone>>

\* default: the loop body for the next pod of the snapshot; an error is
\* logged and the loop goes on.
updatePodStatusesNext ==
    /\ ~panicked
    /\ sweeping
    /\ ~ctxDone
    /\ updatePodStatus(Head(sweepPods))
    /\ sweepPods' = Tail(sweepPods)
    /\ sweeping' = (Tail(sweepPods) # <<>>)
    /\ UNCHANGED <<tracked, provider, clock, ctxDone>>

---------------------------------------------------------------------------
(* The environment *)

\* The orchestrator assigns a pod to this node.
AddPod(p) ==
    /\ ~panicked
    /\ p \notin DOMAIN pods
    /\ \E policy \in RestartPolicies :
         pods' = Put(pods, p, NewPod(policy, clock))
    /\ tracked' = tracked \cup {p}
    /\ k8s' = Put(k8s, p, EmptyStatus)
    /\ last' = NoCall
    /\ UNCHANGED <<provider, clock, sweeping, sweepPods, ctxDone, panicked,
                   prev>>

\* The pod leaves the Tracked-Pod Store once its orchestrator record is gone.
ForgetPod(p) ==
    /\ ~panicked
    /\ p \in tracked
    /\ p \notin DOMAIN k8s
    /\ tracked' = tracked \ {p}
    /\ last' = NoCall
    /\ UNCHANGED <<pods, k8s, provider, clock, sweeping, sweepPods, ctxDone,
                   panicked, prev>>

\* The backend loses a pod behind the provider's back.
ProviderLosesPod(p) ==
    /\ ~panicked
    /\ p \in provider
    /\ provider' = provider \ {p}
    /\ last' = NoCall
    /\ prev' = [prev EXCEPT ![p] = Nil]
    /\ UNCHANGED <<pods, tracked, k8s, clock, sweeping, sweepPods, ctxDone,
                   panicked>>

Tick ==
    /\ ~panicked
    /\ clock < MaxClock
    /\ clock' = clock + 1
    /\ last' = NoCall
    /\ UNCHANGED <<pods, tracked, k8s, provider, sweeping, sweepPods, ctxDone,
                   panicked, prev>>

\* The caller cancels the context of the running sweep.
Cancel ==
    /\ ~panicked
    /\ sweeping
    /\ ~ctxDone
    /\ ctxDone' = TRUE
    /\ last' = NoCall
    /\ UNCHANGED <<pods, tracked, k8s, provider, clock, sweeping, sweepPods,
                   panicked, prev>>

---------------------------------------------------------------------------
(* The specification *)

Init ==
    /\ pods = <<>>
    /\ tracked = {}
    /\ k8s = <<>>
    /\ provider = {}
    /\ clock = 0
    /\ sweeping = FALSE
    /\ sweepPods = <<>>
    /\ ctxDone = FALSE
    /\ panicked = FALSE
    /\ last = NoCall
    /\ prev = [p \in PodNames |-> Nil]
    /\ steps = 0

\* The pods the orchestrator assigns to the node.
Assigned == {"nginx-0"}

Next ==
    \/ \E p \in Assigned : AddPod(p) /\ UNCHANGED steps
    \/ \E p \in Assigned : createPod(p) /\ UNCHANGED steps
    \/ \E p \in Assigned : deletePod(p) /\ UNCHANGED steps
    \/ \E p \in Assigned : ForgetPod(p) /\ UNCHANGED steps
    \/ \E p \in Assigned : ProviderLosesPod(p) /\ UNCHANGED steps
    \/ updatePodStatusesStart /\ UNCHANGED steps
    \/ updatePodStatusesCancelled /\ UNCHANGED steps
    \/ updatePodStatusesNext /\ UNCHANGED steps
    \/ Tick /\ UNCHANGED steps
    \/ Cancel /\ UNCHANGED steps

Spec == Init /\ [][Next]_vars

---------------------------------------------------------------------------
(* The node with both pods of TestPodLifecycle, over runs of bounded length *)

\* The status a sweep recorded for a pod whose containers wait to start.
WaitingStatus(p) ==
    CHOOSE s \in LiveStatuses(p) :
        /\ s.phase = PodPending
        /\ \A i \in 1..Len(s.containerStatuses) :
               s.containerStatuses[i].state.waiting

\* Both pods are assigned and tracked; a sweep recorded the status of
\* nginx-0 and wrote it to its orchestrator record, nginx-1 has no status
\* yet; the provider tracks some of them; the pods are younger or older than
\* one minute.
InitPods ==
    /\ pods = [p \in PodNames |->
                  IF p = "nginx-0"
                  THEN [NewPod("Always", 0) EXCEPT !.status = WaitingStatus(p)]
                  ELSE NewPod("Never", 0)]
    /\ k8s = [p \in PodNames |-> pods[p].status]
    /\ tracked = PodNames
    /\ provider \in SUBSET PodNames
    /\ clock \in {0, MaxClock}
    /\ sweeping = FALSE
    /\ sweepPods = <<>>
    /\ ctxDone = FALSE
    /\ panicked = FALSE
    /\ last = NoCall
    /\ prev = [p \in PodNames |-> Nil]
    /\ steps = 0

\* One more call, while the run has not reached its length.
Counted == steps < MaxSteps /\ steps' = steps + 1

NextPods ==
    \/ \E p \in PodNames : createPod(p) /\ Counted
    \/ \E p \in PodNames : deletePod(p) /\ Counted
    \/ \E p \in PodNames : ForgetPod(p) /\ Counted
    \/ updatePodStatusesStart /\ Counted
    \/ updatePodStatusesCancelled /\ Counted
    \/ updatePodStatusesNext /\ Counted
    \/ Cancel /\ Counted

SpecPods == InitPods /\ [][NextPods]_vars

---------------------------------------------------------------------------
(* A tracked pod the provider does not know, under sweeps that keep running *)

\* The pod is assigned and tracked, it is not terminal, a sweep recorded its
\* status and wrote it to its orchestrator record, and the provider has
\* lost it.
InitLive ==
    /\ \E st \in {EmptyStatus} \cup
                  {s \in LiveStatuses("nginx-0") : s.phase # PodSucceeded} :
         /\ pods = [p \in Assigned |->
                       [NewPod("Always", 0) EXCEPT !.status = st]]
         /\ k8s = [p \in Assigned |-> st]
    /\ tracked = Assigned
    /\ provider = {}
    /\ clock = 0
    /\ sweeping = FALSE
    /\ sweepPods = <<>>
    /\ ctxDone = FALSE
    /\ panicked = FALSE
    /\ last = NoCall
    /\ prev = [p \in PodNames |-> Nil]
    /\ steps = 0

NextLive ==
    \/ updatePodStatusesStart /\ UNCHANGED steps
    \/ updatePodStatusesNext /\ UNCHANGED steps
    \/ Tick /\ UNCHANGED steps

\* The loop body of a sweep in which GetPodStatus, if called, returned no
\* error.
AnsweredNext ==
    updatePodStatusesNext /\ last'.provErr = "nil" /\ UNCHANGED steps

\* The loop body of a sweep in which the UpdateStatus succeeded.
WrittenNext ==
    /\ updatePodStatusesNext
    /\ last'.statusWrites = 1
    /\ last'.k8sErr = "nil"
    /\ UNCHANGED steps

\* Time advances, sweeps keep being started and run, the provider keeps
\* answering without an error, and writes to the orchestrator record
\* succeed again and again while they are attempted.
SpecLive ==
    /\ InitLive
    /\ [][NextLive]_vars
    /\ WF_vars(Tick /\ UNCHANGED steps)
    /\ WF_vars(updatePodStatusesStart /\ UNCHANGED steps)
    /\ WF_vars(updatePodStatusesNext /\ UNCHANGED steps)
    /\ SF_vars(AnsweredNext)
    /\ SF_vars(WrittenNext)

---------------------------------------------------------------------------
(* Claims about deletePod *)

DeletePodReturned == last.op = "deletePod"

C2_DeleteOnlyAfterProviderConfirms ==
    DeletePodReturned =>
        /\ last.deletes = 1 => (last.provErr = "nil" \/ IsNotFound(last.provErr))
        /\ (last.provErr # "nil" /\ ~IsNotFound(last.provErr)) =>
               (last.deletes = 0 /\ last.ret = last.provErr)

\* C3: once deletePod has issued the orchestrator Delete, a NotFound from it
\* makes deletePod return nil and any other error makes it return an error.
C3_OrchestratorDeleteErrorSurfaced ==
    (DeletePodReturned /\ last.deletes = 1) =>
        /\ IsNotFound(last.k8sErr) => last.ret = "nil"
        /\ (last.k8sErr # "nil" /\ ~IsNotFound(last.k8sErr)) => last.ret # "nil"

---------------------------------------------------------------------------
(* Claims about updatePodStatus and the sweep *)

\* The step is a call updatePodStatus(p).
UpdateStep(p) == last'.op = "updatePodStatus" /\ last'.pod = p

\* The step is a call updatePodStatus(p) that GetPodStatus answered with no
\* status and no error.
NoStatusStep(p) ==
    /\ UpdateStep(p)
    /\ last'.getStatusCalls = 1
    /\ last'.provStatus = Nil
    /\ last'.provErr = "nil"

PhaseReasonMessage(pod) ==
    <<pod.status.phase, pod.status.reason, pod.status.message>>

\* C4: a call updatePodStatus on a pod whose phase is Succeeded or Failed,
\* or whose reason is "ProviderFailed", leaves phase, reason and message as
\* they are, returns nil, does not call GetPodStatus and writes nothing to
\* the orchestrator record.
C4_TerminalPermanent ==
    [][\A p \in DOMAIN pods :
         (/\ UpdateStep(p)
          /\ \/ pods[p].status.phase \in {"Succeeded", "Failed"}
             \/ pods[p].status.reason = "ProviderFailed")
         => /\ PhaseReasonMessage(pods'[p]) = PhaseReasonMessage(pods[p])
            /\ last'.ret = "nil"
            /\ last'.getStatusCalls = 0
            /\ last'.statusWrites = 0
            /\ k8s' = k8s]_vars

\* updatePodStatus has returned from its short circuit for a Pending pod
\* that carries the provider-failure sentinel.
C4_Witness ==
    /\ last.op = "updatePodStatus"
    /\ last.path = "terminal"
    /\ pods[last.pod].status.phase = "Pending"
    /\ pods[last.pod].status.reason = "ProviderFailed"

\* C5: when GetPodStatus returns no status and no error for a pod that is
\* not Running and was created at most one minute ago, updatePodStatus
\* leaves the pod's status as it was; and no step gives a pod the reason
\* "NotFound" unless the pod was Running or older than one minute.
C5_GraceWindow ==
    [][\A p \in DOMAIN pods :
         /\ (/\ NoStatusStep(p)
             /\ pods[p].status.phase # "Running"
             /\ clock <= pods[p].creationTimestamp + Minute)
            => (pods'[p].status = pods[p].status /\ ~panicked')
         /\ (/\ pods'[p].status.reason = "NotFound"
             /\ pods[p].status.reason # "NotFound")
            => \/ pods[p].status.phase = "Running"
               \/ clock > pods[p].creationTimestamp + Minute]_vars

\* updatePodStatus has returned for a Pending pod exactly one minute old
\* that the provider does not know, and has written its status.
C5_Witness ==
    /\ last.op = "updatePodStatus"
    /\ last.path = "grace"
    /\ last.statusWrites = 1
    /\ pods[last.pod].status.phase = "Pending"
    /\ clock = pods[last.pod].creationTimestamp + Minute

\* C6: after the not-found path of updatePodStatus the pod is Failed with
\* reason "NotFound" and every container it declares is Terminated with exit
\* code -137 and reason "NotFound", not Running, with the started-at of its
\* Running state and its container identifier kept.
C6_NotFoundTerminatesEveryContainer ==
    [][\A p \in DOMAIN pods :
         (UpdateStep(p) /\ last'.path = "notfound")
         => LET old == pods[p].status.containerStatuses
                new == pods'[p].status.containerStatuses
            IN /\ pods'[p].status.phase = "Failed"
               /\ pods'[p].status.reason = "NotFound"
               /\ ~panicked'
               /\ Len(new) = Len(Containers(p))
               /\ \A i \in 1..Len(new) :
                    /\ new[i].state.running = Nil
                    /\ new[i].state.terminated # Nil
                    /\ Deref(new[i].state.terminated).exitCode = 0 - 137
                    /\ Deref(new[i].state.terminated).reason = "NotFound"
                    /\ new[i].containerID = Containers(p)[i]
                    /\ Deref(new[i].state.terminated).containerID = Containers(p)[i]
                    /\ (i <= Len(old) /\ old[i].state.running # Nil) =>
                           Deref(new[i].state.terminated).startedAt =
                               Deref(old[i].state.running).startedAt]_vars

\* C7: no call of createPod, deletePod, updatePodStatus or updatePodStatuses
\* ends in a panic.
C7_NeverPanics == ~panicked /\ last.ret # "panic"

\* The exception to idempotence: no status, a pod that is not Running, and
\* an age that passed one minute between the two passes.
CrossedGrace(p) ==
    /\ NoStatusStep(p)
    /\ pods[p].status.phase # "Running"
    /\ Deref(prev[p]).at <= pods[p].creationTimestamp + Minute
    /\ pods[p].creationTimestamp + Minute < clock

\* The step is the second of two calls updatePodStatus(p) with the same
\* GetPodStatus answer and no change of provider state in between.
SecondPass(p) == UpdateStep(p) /\ prev[p] # Nil /\
                 (last'.getStatusCalls = 1 => last'.again)

\* C8 as stated: a second pass with the same GetPodStatus answer leaves
\* phase, reason and message as the first pass left them, whatever time
\* elapsed in between.
C8_SweepIdempotent ==
    [][\A p \in DOMAIN pods :
         SecondPass(p) =>
             PhaseReasonMessage(pods'[p]) = PhaseReasonMessage(pods[p])]_vars

\* C8 amended: a second pass with the same GetPodStatus answer leaves phase,
\* reason and message as the first pass left them, except for a pod that is
\* not Running, for which the provider returns no status and whose age
\* passed one minute between the passes: the second pass makes that pod
\* Failed with reason "NotFound".
C8_SweepIdempotentUpToGrace ==
    [][\A p \in DOMAIN pods :
         SecondPass(p) =>
             IF CrossedGrace(p)
             THEN /\ pods'[p].status.phase = "Failed"
                  /\ pods'[p].status.reason = "NotFound"
             ELSE PhaseReasonMessage(pods'[p]) = PhaseReasonMessage(pods[p])]_vars

\* updatePodStatus has returned from a second pass over a pod the provider
\* does not know, inside the grace window.
C8_Witness ==
    /\ last.op = "updatePodStatus"
    /\ last.again
    /\ last.provStatus = Nil
    /\ last.path = "grace"

---------------------------------------------------------------------------
(* Claims about the stats summary *)

\* The pod is reported ready: its orchestrator record shows Running.
Ready(p) == p \in DOMAIN k8s /\ k8s[p].phase = "Running"

\* The pod's deletion is confirmed: its orchestrator record is gone.
ReportedDeleted(p) == p \in DOMAIN pods /\ p \notin DOMAIN k8s

Reported(p) ==
    \E i \in 1..Len(GetStatsSummary.pods) :
        GetStatsSummary.pods[i].podRef = PodRef(p)

\* C9: GetStatsSummary returns exactly one PodStats per pod the provider
\* tracks, none twice, and none for a pod whose deletion has been confirmed.
C9_SummaryFollowsConfirmedDeletes ==
    LET s == GetStatsSummary.pods IN
    /\ Len(s) = Cardinality(provider)
    /\ \A i, j \in 1..Len(s) : s[i].podRef = s[j].podRef => i = j
    /\ \A p \in PodNames : ReportedDeleted(p) => ~Reported(p)

---------------------------------------------------------------------------
(* Claims about the orchestrator writes of updatePodStatus *)

\* What a call updatePodStatus(p) that issued its one UpdateStatus did with
\* it: the record holds the pod's resulting status after a write that
\* succeeded; after one that failed the record is as it was and the call
\* returned the error.
WroteOnce(p) ==
    /\ last'.statusWrites = 1
    /\ last'.k8sErr = "nil" =>
           (p \in DOMAIN k8s' /\ k8s'[p] = pods'[p].status /\ last'.ret = "nil")
    /\ last'.k8sErr # "nil" =>
           (k8s' = k8s /\
            last'.ret = "error while updating pod status in kubernetes")

C16_LiveStatusReplacesWhole ==
    [][\A p \in DOMAIN pods :
         (/\ UpdateStep(p)
          /\ pods[p].status.phase \notin {"Succeeded", "Failed"}
          /\ pods[p].status.reason # "ProviderFailed"
          /\ last'.provStatus # Nil
          /\ last'.provErr = "nil")
         => LET live == Deref(last'.provStatus) IN
            /\ pods'[p].status.phase = live.phase
            /\ pods'[p].status.reason = live.reason
            /\ pods'[p].status.message = live.message
            /\ pods'[p].status.containerStatuses = live.containerStatuses
            /\ pods'[p].status = live
            /\ last'.statusWrites = 1
            /\ last'.k8sErr = "nil" => (p \in DOMAIN k8s' /\ k8s'[p] = live)]_vars

\* updatePodStatus has returned after it replaced the status of a pod by the
\* provider's, in which the last container has exited, and wrote it.
C16_Witness ==
    /\ last.op = "updatePodStatus"
    /\ last.path = "live"
    /\ last.k8sErr = "nil"
    /\ last.statusWrites = 1
    /\ pods[last.pod].status = Deref(last.provStatus)
    /\ k8s[last.pod] = Deref(last.provStatus)
    /\ \E i \in 1..Len(pods[last.pod].status.containerStatuses) :
           pods[last.pod].status.containerStatuses[i].state.terminated # Nil

\* C18: when GetPodStatus returns an error for a pod that is not Succeeded,
\* not Failed and does not carry the reason "ProviderFailed", updatePodStatus
\* returns an error, leaves the pod's status as it was and issues no
\* UpdateStatus.
C18_GetStatusErrorLeavesPod ==
    [][\A p \in DOMAIN pods :
         (/\ UpdateStep(p)
          /\ pods[p].status.phase \notin {"Succeeded", "Failed"}
          /\ pods[p].status.reason # "ProviderFailed"
          /\ last'.provErr # "nil")
         => /\ last'.ret # "nil"
            /\ last'.ret # "panic"
            /\ PhaseReasonMessage(pods'[p]) = PhaseReasonMessage(pods[p])
            /\ pods'[p].status.containerStatuses =
                   pods[p].status.containerStatuses
            /\ last'.statusWrites = 0
            /\ k8s' = k8s]_vars

\* updatePodStatus has returned the error of GetPodStatus for a Running pod
\* whose orchestrator record still exists.
C18_Witness ==
    /\ last.op = "updatePodStatus"
    /\ last.provErr = "Internal"
    /\ last.ret = "error retreiving pod status"
    /\ last.statusWrites = 0
    /\ pods[last.pod].status.phase = "Running"
    /\ last.pod \in DOMAIN k8s

---------------------------------------------------------------------------
(* Claims about the sweep *)

\* The step is the loop body of the sweep for the pod at the head of what
\* is left of the snapshot, and takes that pod off it.
SweepsHead ==
    /\ sweeping
    /\ sweepPods # <<>>
    /\ UpdateStep(Head(sweepPods))
    /\ sweepPods' = Tail(sweepPods)

\* C12: a sweep that is not cancelled calls updatePodStatus once for every
\* pod of the snapshot of the tracked pods it took when it started, in the
\* snapshot's order and for no other pod; a call that failed for one pod
\* leaves the sweep able to go on with the pods after it. (The sweep has no
\* return value, so it returns no error.)
C12_SweepContinuation ==
    /\ []((sweeping /\ ~ctxDone) =>
            /\ sweepPods # <<>>
            /\ \A i, j \in 1..Len(sweepPods) :
                   sweepPods[i] = sweepPods[j] => i = j
            /\ ENABLED updatePodStatusesNext)
    /\ [][/\ (~sweeping /\ sweepPods' # sweepPods) =>
              sweepPods' \in Orders(tracked)
          /\ (sweeping /\ ~ctxDone /\ sweepPods' # sweepPods) => SweepsHead
          /\ last'.op = "updatePodStatus" => SweepsHead
          /\ (sweeping /\ ~ctxDone /\ ~sweeping') => sweepPods' = <<>>]_vars

\* C13: once ctx.Done() has fired no call updatePodStatus is started, for
\* the pod the loop has reached or for a later one; the sweep then returns
\* with the rest of its snapshot unprocessed, changing no pod and no
\* orchestrator record, and no call it made before is left unfinished.
C13_SweepCancellation ==
    [][ctxDone =>
          /\ last'.op # "updatePodStatus"
          /\ (sweeping /\ ~sweeping') =>
                 /\ sweepPods' = <<>>
                 /\ pods' = pods
                 /\ k8s' = k8s
                 /\ ~panicked /\ ~panicked']_vars

\* A cancelled sweep has returned after it processed nginx-0 and before it
\* started on nginx-1.
C13_Witness ==
    /\ ctxDone
    /\ ~sweeping
    /\ sweepPods = <<>>
    /\ prev["nginx-0"] # Nil
    /\ prev["nginx-1"] = Nil
    /\ "nginx-1" \in tracked

---------------------------------------------------------------------------
(* Claims about createPod *)

\* The step is a call createPod(p).
CreateStep(p) == last'.op = "createPod" /\ last'.pod = p

\* C14: when Provider.CreatePod fails, createPod clears the pod's resource
\* version, sets its phase to Failed if the restart policy is Never and to
\* Pending for every other policy, its reason to "ProviderFailed" and its
\* message to the text of the provider's error; when Provider.CreatePod
\* succeeds, createPod leaves the pod as it was and writes nothing to the
\* orchestrator record.
C14_ProviderFailureRecorded ==
    [][\A p \in DOMAIN pods :
         CreateStep(p) =>
            /\ last'.provErr # "nil" =>
                   /\ pods'[p].resourceVersion = ""
                   /\ pods'[p].status.phase = "Failed"
                          <=> pods[p].restartPolicy = "Never"
                   /\ pods'[p].status.phase = "Pending"
                          <=> pods[p].restartPolicy # "Never"
                   /\ pods'[p].status.reason = "ProviderFailed"
                   /\ pods'[p].status.message = last'.provErr
            /\ last'.ret = "nil" =>
                   /\ pods'[p] = pods[p]
                   /\ last'.statusWrites = 0
                   /\ k8s' = k8s]_vars

\* createPod has returned after a provider failure for a pod with the
\* restart policy OnFailure, which it left Pending with the sentinel.
C14_Witness ==
    /\ last.op = "createPod"
    /\ last.provErr = "Internal"
    /\ pods[last.pod].restartPolicy = "OnFailure"
    /\ pods[last.pod].status.phase = "Pending"
    /\ pods[last.pod].status.reason = "ProviderFailed"
    /\ pods[last.pod].resourceVersion = ""

\* C15: when Provider.CreatePod fails, createPod issues exactly one
\* UpdateStatus and returns the provider's error, whether that write
\* succeeds (the record then holds the pod's new status) or fails (the
\* record stays as it was).
C15_OneWriteOriginalError ==
    [][\A p \in DOMAIN pods :
         (CreateStep(p) /\ last'.provErr # "nil") =>
            /\ last'.statusWrites = 1
            /\ last'.ret = last'.provErr
            /\ last'.k8sErr = "nil" =>
                   (p \in DOMAIN k8s' /\ k8s'[p] = pods'[p].status)
            /\ last'.k8sErr # "nil" => k8s' = k8s]_vars

\* createPod has returned the provider's error after its UpdateStatus
\* failed.
C15_Witness ==
    /\ last.op = "createPod"
    /\ last.provErr = "Internal"
    /\ last.k8sErr = "Conflict"
    /\ last.ret = "Internal"
    /\ k8s[last.pod].reason # "ProviderFailed"

---------------------------------------------------------------------------
(* Claims about operations on different pods *)

\* What the operations on pod q read and write: its tracked object, its
\* orchestrator record, and whether the store and the provider hold it.
LocalView(q) ==
    [pod |-> IF q \in DOMAIN pods THEN {pods[q]} ELSE Nil,
     record |-> IF q \in DOMAIN k8s THEN {k8s[q]} ELSE Nil,
     tracked |-> q \in tracked,
     provided |-> q \in provider]

\* C17: a call createPod, deletePod or updatePodStatus on pod P leaves P
\* under its own identity (no pod object appears, disappears or changes
\* name, and the store holds the same pods) and leaves untouched all that
\* the operations on any other pod read or write; so an operation on another
\* pod finds the state it would find had the call on P not run.
C17_FrameAcrossPods ==
    [][\A p \in PodNames :
         (last'.op \in {"createPod", "deletePod", "updatePodStatus"}
          /\ last'.pod = p)
         => /\ DOMAIN pods' = DOMAIN pods
            /\ tracked' = tracked
            /\ \A q \in PodNames \ {p} : LocalView(q)' = LocalView(q)]_vars

\* createPod has failed for nginx-1 and recorded it, while a sweep is under
\* way that has yet to process nginx-0.
C17_Witness ==
    /\ last.op = "createPod"
    /\ last.pod = "nginx-1"
    /\ pods["nginx-1"].status.reason = "ProviderFailed"
    /\ sweeping
    /\ sweepPods # <<>>
    /\ Head(sweepPods) = "nginx-0"
    /\ pods["nginx-0"].status.reason = ""

---------------------------------------------------------------------------
(* Claims about what the sweeps reach in the end *)

C20_RecordConverges ==
    \A p \in Assigned :
        <>[](\/ panicked
             \/ /\ p \in DOMAIN k8s
                /\ k8s[p].phase = pods[p].status.phase
                /\ k8s[p].reason = pods[p].status.reason)

===========================================================================
